---------------------------- MODULE Spec2Model ----------------------------
(***************************************************************************)
(* Model of the checked numeric conversions of num-traits (src/src/lib.rs, *)
(* trait Cast and the impl_cast_* macros).                                 *)
(*                                                                         *)
(* Integers are held exactly.  A mathematical integer z in the range       *)
(* -2^63 .. 2^64-1 is the tuple <<l3, l2, l1, l0>> of base-2^16 limbs with  *)
(* z = l3*2^48 + l2*2^32 + l1*2^16 + l0, where l2, l1, l0 are in            *)
(* 0 .. 65535 and the top limb l3 carries the sign (-32768 .. 65535).      *)
(* Every integer has exactly one such tuple, so = on tuples is numeric     *)
(* equality and the lexicographic order on tuples is the numeric order.    *)
(* The `as` casts of the language are modelled by what they do: wrapping   *)
(* between integers, rounding to nearest (ties to even) into a float,      *)
(* truncation toward zero out of a float.                                  *)
(***************************************************************************)
EXTENDS Integers, Sequences, FiniteSets

VARIABLES
    ptrBytes,   \* size_of::<isize>() = size_of::<usize>() of the target: 4 or 8
    srcKind,    \* kind of the value the pipeline starts from
    src,        \* that value
    stage,      \* number of casts applied so far: 0, 1 or 2
    dst1,       \* target kind of the first cast ("none" before it)
    res1,       \* Option returned by the first cast
    dst2,       \* target kind of the second cast ("none" before it)
    res2,       \* Option returned by the second cast
    call,       \* the Signed predicate called on src ("none" before a call)
    ret         \* what that call returned (FALSE before a call)

vars == <<ptrBytes, srcKind, src, stage, dst1, res1, dst2, res2, call, ret>>

\* Radius of the neighbourhood taken around every boundary value of the inputs.
Delta == 2

-----------------------------------------------------------------------------
(* Kinds *)

SignedKinds   == {"i8", "i16", "i32", "i64", "isize"}
UnsignedKinds == {"u8", "u16", "u32", "u64", "usize"}
IntKinds      == SignedKinds \cup UnsignedKinds
FloatKinds    == {"f32", "f64"}
Kinds         == IntKinds \cup FloatKinds

\* Mutant of size_of: isize and usize take 8 bytes on every target
size_of_ptr_always_8(k) ==
    CASE k \in {"i8", "u8"}           -> 1
      [] k \in {"i16", "u16"}         -> 2
      [] k \in {"i32", "u32", "f32"}  -> 4
      [] k \in {"i64", "u64", "f64"}  -> 8
      [] k \in {"isize", "usize"}     -> 8

\* std::mem::size_of::<K>()
size_of(k) ==
    CASE k \in {"i8", "u8"}           -> 1
      [] k \in {"i16", "u16"}         -> 2
      [] k \in {"i32", "u32", "f32"}  -> 4
      [] k \in {"i64", "u64", "f64"}  -> 8
      [] k \in {"isize", "usize"}     -> ptrBytes

Bits(k) == 8 * size_of(k)

-----------------------------------------------------------------------------
(* Exact integers as limb tuples *)

B16 == 2^16

\* Option<T>
None    == <<>>
Some(v) == <<v>>

\* T::zero() of an integer kind
ZeroInt == <<0, 0, 0, 0>>

\* a <= b, a < b on exact integers
Le(a, b) ==
    \/ a[1] < b[1]
    \/ a[1] = b[1] /\ a[2] < b[2]
    \/ a[1] = b[1] /\ a[2] = b[2] /\ a[3] < b[3]
    \/ a[1] = b[1] /\ a[2] = b[2] /\ a[3] = b[3] /\ a[4] <= b[4]

Lt(a, b) == Le(a, b) /\ a # b

\* z + d for a small integer d, carries propagated into the top limb
AddSmall(z, d) ==
    LET s0 == z[4] + d
        s1 == z[3] + (s0 \div B16)
        s2 == z[2] + (s1 \div B16)
        s3 == z[1] + (s2 \div B16)
    IN  <<s3, s2 % B16, s1 % B16, s0 % B16>>

\* The low b bits of z as an unsigned bit pattern (b is 8, 16, 32 or 64)
Low(z, b) ==
    CASE b = 8  -> <<0, 0, 0, z[4] % 256>>
      [] b = 16 -> <<0, 0, 0, z[4]>>
      [] b = 32 -> <<0, 0, z[3], z[4]>>
      [] b = 64 -> <<z[1] % B16, z[2], z[3], z[4]>>

\* Is bit b-1 of the b-bit pattern p set?
TopBit(p, b) ==
    CASE b = 8  -> p[4] >= 128
      [] b = 16 -> p[4] >= 32768
      [] b = 32 -> p[3] >= 32768
      [] b = 64 -> p[1] >= 32768

\* p - 2^b for a b-bit pattern p: the two's complement reading of a pattern
\* whose top bit is set
SignExt(p, b) ==
    CASE b = 8  -> <<-1, 65535, 65535, p[4] + 65280>>
      [] b = 16 -> <<-1, 65535, 65535, p[4]>>
      [] b = 32 -> <<-1, 65535, p[3], p[4]>>
      [] b = 64 -> <<p[1] - B16, p[2], p[3], p[4]>>

\* <K>::min_value() and <K>::max_value() of an integer kind
max_value(k) ==
    LET b == Bits(k) IN
    IF k \in UnsignedKinds
    THEN CASE b = 8  -> <<0, 0, 0, 255>>
           [] b = 16 -> <<0, 0, 0, 65535>>
           [] b = 32 -> <<0, 0, 65535, 65535>>
           [] b = 64 -> <<65535, 65535, 65535, 65535>>
    ELSE CASE b = 8  -> <<0, 0, 0, 127>>
           [] b = 16 -> <<0, 0, 0, 32767>>
           [] b = 32 -> <<0, 0, 32767, 65535>>
           [] b = 64 -> <<32767, 65535, 65535, 65535>>

min_value(k) ==
    LET b == Bits(k) IN
    IF k \in UnsignedKinds
    THEN ZeroInt
    ELSE CASE b = 8  -> <<-1, 65535, 65535, 65408>>
           [] b = 16 -> <<-1, 65535, 65535, 32768>>
           [] b = 32 -> <<-1, 65535, 32768, 0>>
           [] b = 64 -> <<-32768, 0, 0, 0>>

\* Is the exact integer z a value of integer kind k?
InRange(z, k) == Le(min_value(k), z) /\ Le(z, max_value(k))

\* The integer-to-integer `as` cast: z wrapped modulo 2^Bits(k), read as
\* two's complement when k is signed
AsInt(z, k) ==
    LET b == Bits(k)
        p == Low(z, b)
    IN  IF k \in SignedKinds /\ TopBit(p, b) THEN SignExt(p, b) ELSE p

-----------------------------------------------------------------------------
(* Floating-point values                                                   *)
(*                                                                         *)
(* A float is a record [cls, neg, exp, mant].  For cls = "fin" its value   *)
(* is (-1)^neg * mant * 2^(exp - 63), where mant is a 64-bit significand   *)
(* held as four base-2^16 limbs with its top bit set, so that exp is the   *)
(* exponent of the leading bit.  Which of these records are values of f32  *)
(* and of f64 is decided by IsFloatOf: the significand has 24 resp. 53     *)
(* bits, fewer in the subnormal range.                                     *)
(***************************************************************************)

NoMant == <<0, 0, 0, 0>>
OneMant == <<32768, 0, 0, 0>>

NaN       == [cls |-> "nan",  neg |-> FALSE, exp |-> 0, mant |-> NoMant]
Inf(n)    == [cls |-> "inf",  neg |-> n,     exp |-> 0, mant |-> NoMant]
FZero(n)  == [cls |-> "zero", neg |-> n,     exp |-> 0, mant |-> NoMant]
Fin(n, e, m) == [cls |-> "fin", neg |-> n, exp |-> e, mant |-> m]

\* std::{f32,f64}::MANTISSA_DIGITS, MAX_EXP - 1, MIN_EXP - 1
MantissaDigits(fk) == IF fk = "f32" THEN 24 ELSE 53
EMax(fk)           == IF fk = "f32" THEN 127 ELSE 1023
EMin(fk)           == IF fk = "f32" THEN -126 ELSE -1022

\* Significand bits a value with leading exponent e has in kind fk
Prec(fk, e) ==
    IF e >= EMin(fk) THEN MantissaDigits(fk)
    ELSE MantissaDigits(fk) - (EMin(fk) - e)

\* The limb holding bit p (counted from the top, 1 .. 64) and the weight of
\* that bit within its limb
LimbOf(p) == ((p - 1) \div 16) + 1
UnitOf(p) == 2^(16 * LimbOf(p) - p)

\* The bits of m below the top p bits, and m with those bits cleared
BelowBits(m, p) ==
    LET i == LimbOf(p)
        r == [j \in 1..4 |-> IF j < i THEN 0
                             ELSE IF j = i THEN m[j] % UnitOf(p) ELSE m[j]]
    IN  <<r[1], r[2], r[3], r[4]>>

KeptBits(m, p) ==
    LET i == LimbOf(p)
        r == [j \in 1..4 |-> IF j < i THEN m[j]
                             ELSE IF j = i THEN m[j] - (m[j] % UnitOf(p)) ELSE 0]
    IN  <<r[1], r[2], r[3], r[4]>>

\* Half a unit in the last place of a p-bit significand (p < 64)
HalfUlp(p) ==
    LET i == LimbOf(p)
        u == UnitOf(p)
        r == [j \in 1..4 |-> IF u > 1 THEN (IF j = i THEN u \div 2 ELSE 0)
                             ELSE (IF j = i + 1 THEN 32768 ELSE 0)]
    IN  <<r[1], r[2], r[3], r[4]>>

\* m + one unit in the last place of a p-bit significand; the top limb is
\* 65536 when the sum is 2^64
AddUlp(m, p) ==
    LET i  == LimbOf(p)
        a  == [j \in 1..4 |-> IF j = i THEN UnitOf(p) ELSE 0]
        s4 == m[4] + a[4]
        s3 == m[3] + a[3] + (s4 \div B16)
        s2 == m[2] + a[2] + (s3 \div B16)
        s1 == m[1] + a[1] + (s2 \div B16)
    IN  <<s1, s2 % B16, s3 % B16, s4 % B16>>

\* Round the 64-bit significand m to p bits (1 <= p), to nearest, ties to
\* even.  carry = 1 when the significand rounds up to the next power of two.
RoundMant(m, p) ==
    IF p >= 64 THEN [mant |-> m, carry |-> 0]
    ELSE LET rest == BelowBits(m, p)
             kept == KeptBits(m, p)
             half == HalfUlp(p)
             odd  == (m[LimbOf(p)] \div UnitOf(p)) % 2 = 1
             up   == Lt(half, rest) \/ (rest = half /\ odd)
             sum  == AddUlp(kept, p)
         IN  IF ~up THEN [mant |-> kept, carry |-> 0]
             ELSE IF sum[1] = B16 THEN [mant |-> OneMant, carry |-> 1]
             ELSE [mant |-> sum, carry |-> 0]

\* Is the record f a value of float kind fk?
IsFloatOf(f, fk) ==
    \/ f.cls \in {"nan", "inf", "zero"}
    \/ /\ f.cls = "fin"
       /\ f.exp <= EMax(fk)
       /\ Prec(fk, f.exp) >= 1
       /\ BelowBits(f.mant, Prec(fk, f.exp)) = NoMant

\* <f32>::MAX, <f64>::MAX (Num::max_value of a float kind)
FMaxValue(fk) ==
    IF fk = "f32" THEN Fin(FALSE, 127, <<65535, 65280, 0, 0>>)
    ELSE Fin(FALSE, 1023, <<65535, 65535, 65535, 63488>>)

\* Unary minus on a float
FNeg(f) == IF f.cls = "nan" THEN f ELSE [f EXCEPT !.neg = ~f.neg]

\* a <= b on floats: false when either is NaN; -0.0 = +0.0
FSign(f) == IF f.cls = "zero" THEN 0 ELSE IF f.neg THEN -1 ELSE 1

MagLe(a, b) ==
    IF a.cls = "inf" THEN b.cls = "inf"
    ELSE IF b.cls = "inf" THEN TRUE
    ELSE a.exp < b.exp \/ (a.exp = b.exp /\ Le(a.mant, b.mant))

FLe(a, b) ==
    /\ a.cls # "nan" /\ b.cls # "nan"
    /\ \/ FSign(a) < FSign(b)
       \/ FSign(a) = 0 /\ FSign(b) = 0
       \/ FSign(a) = 1 /\ FSign(b) = 1 /\ MagLe(a, b)
       \/ FSign(a) = -1 /\ FSign(b) = -1 /\ MagLe(b, a)

FLt(a, b) == FLe(a, b) /\ ~FLe(b, a)

\* -z on exact integers
NegInt(z) ==
    LET s0 == 0 - z[4]
        s1 == (0 - z[3]) + (s0 \div B16)
        s2 == (0 - z[2]) + (s1 \div B16)
        s3 == (0 - z[1]) + (s2 \div B16)
    IN  <<s3, s2 % B16, s1 % B16, s0 % B16>>

\* m shifted right by n bits (0 <= n <= 63), the bits shifted out dropped
Shr(m, n) ==
    LET q == n \div 16
        k == n % 16
        w == [j \in 0..4 |-> IF j - q >= 1 THEN m[j - q] ELSE 0]
        l == [j \in 1..4 |-> (w[j - 1] % 2^k) * 2^(16 - k) + (w[j] \div 2^k)]
    IN  <<l[1], l[2], l[3], l[4]>>

\* m shifted left by n bits (0 <= n <= 63), the bits shifted out dropped
Shl(m, n) ==
    LET q == n \div 16
        k == n % 16
        w == [j \in 1..5 |-> IF j + q <= 4 THEN m[j + q] ELSE 0]
        l == [j \in 1..4 |-> ((w[j] * 2^k) % B16) + (w[j + 1] \div 2^(16 - k))]
    IN  <<l[1], l[2], l[3], l[4]>>

\* Number of significant bits of the nonzero magnitude m (1 .. 64)
BitLength(m) ==
    LET i == CHOOSE i \in 1..4 : m[i] # 0 /\ \A j \in 1..(i - 1) : m[j] = 0
        w == CHOOSE w \in 1..16 : 2^(w - 1) <= m[i] /\ m[i] < 2^w
    IN  16 * (4 - i) + w

\* The nonzero integer magnitude m as a significand with its top bit set,
\* and the exponent of that bit
Normalize(m) ==
    [exp |-> BitLength(m) - 1, mant |-> Shl(m, 64 - BitLength(m))]

\* The int-to-float `as` cast: z rounded to the nearest value of fk, ties
\* to even
IntAsFloat(z, fk) ==
    IF z = ZeroInt THEN FZero(FALSE)
    ELSE LET neg == z[1] < 0
             n   == Normalize(IF neg THEN NegInt(z) ELSE z)
             r   == RoundMant(n.mant, MantissaDigits(fk))
         IN  Fin(neg, n.exp + r.carry, r.mant)

\* The float-to-float `as` cast: f rounded to the nearest value of fk, ties
\* to even, overflow to infinity, underflow to a subnormal or to zero
FloatAsFloat(f, fk) ==
    IF f.cls # "fin" THEN f
    ELSE LET p == Prec(fk, f.exp) IN
         IF p < 0 THEN FZero(f.neg)
         ELSE IF p = 0
         THEN (IF Lt(OneMant, f.mant) THEN Fin(f.neg, f.exp + 1, OneMant)
               ELSE FZero(f.neg))
         ELSE LET r == RoundMant(f.mant, p)
                  e == f.exp + r.carry
              IN  IF e > EMax(fk) THEN Inf(f.neg) ELSE Fin(f.neg, e, r.mant)

\* Is the finite float f so large that its integer part has more than 64
\* bits?
TooBig(f) == f.cls = "fin" /\ f.exp >= 64

\* The integer part of a finite float with |f| < 2^64, as an exact integer
\* (truncation toward zero); the top limb is below -32768 when the integer
\* part is below -2^63
Trunc(f) ==
    IF f.cls = "zero" \/ f.exp < 0 THEN ZeroInt
    ELSE LET mag == Shr(f.mant, 63 - f.exp)
         IN  IF f.neg THEN NegInt(mag) ELSE mag

\* Does the integer part of f fit integer kind k?
TruncFits(f, k) ==
    /\ f.cls \in {"zero", "fin"}
    /\ ~TooBig(f)
    /\ InRange(Trunc(f), k)

\* The float-to-int `as` cast: the integer part of f when it fits k.  When
\* it does not, the cast is undefined behaviour in the compilers this code
\* was written for and saturates in later ones: any of the outcomes below.
FloatAsInt(f, k) ==
    IF TruncFits(f, k) THEN { Trunc(f) }
    ELSE { max_value(k), min_value(k), ZeroInt }

-----------------------------------------------------------------------------
(* The integer cast macros *)

\* Mutant of impl_cast_same_type: the value is put through the range check
\* of the narrowing float cast, which no NaN and no infinity passes
impl_cast_same_type_checked(T, x) ==
    IF T \in FloatKinds
         /\ ~(FLe(FNeg(FMaxValue(T)), x) /\ FLe(x, FMaxValue(T)))
    THEN None
    ELSE Some(x)

\* impl_cast_same_type!(T)
impl_cast_same_type(T, x) == Some(x)

\* Mutant of impl_cast_int_to_int: the lower bound is not checked
impl_cast_int_to_int_no_min(Src, Dst, x) ==
    IF size_of(Src) <= size_of(Dst)
    THEN Some(AsInt(x, Dst))
    ELSE LET n   == AsInt(x, "i64")
             max == max_value(Dst)
         IN  IF Le(n, AsInt(max, "i64"))
             THEN Some(AsInt(x, Dst))
             ELSE None

\* Mutant of impl_cast_int_to_int: n < max_value in place of n <= max_value
impl_cast_int_to_int_strict(Src, Dst, x) ==
    IF size_of(Src) <= size_of(Dst)
    THEN Some(AsInt(x, Dst))
    ELSE LET n   == AsInt(x, "i64")
             min == min_value(Dst)
             max == max_value(Dst)
         IN  IF Le(AsInt(min, "i64"), n) /\ Lt(n, AsInt(max, "i64"))
             THEN Some(AsInt(x, Dst))
             ELSE None

\* impl_cast_int_to_int!(Src, Dst)
impl_cast_int_to_int(Src, Dst, x) ==
    IF size_of(Src) <= size_of(Dst)
    THEN Some(AsInt(x, Dst))
    ELSE LET n   == AsInt(x, "i64")
             min == min_value(Dst)
             max == max_value(Dst)
         IN  IF Le(AsInt(min, "i64"), n) /\ Le(n, AsInt(max, "i64"))
             THEN Some(AsInt(x, Dst))
             ELSE None

\* Mutant of impl_cast_int_to_uint: the guard zero <= x is missing
impl_cast_int_to_uint_no_zero(Src, Dst, x) ==
    LET max == max_value(Dst)
    IN  IF Le(AsInt(x, "u64"), AsInt(max, "u64"))
        THEN Some(AsInt(x, Dst))
        ELSE None

\* impl_cast_int_to_uint!(Src, Dst)
impl_cast_int_to_uint(Src, Dst, x) ==
    LET zero == ZeroInt
        max  == max_value(Dst)
    IN  IF Le(zero, x) /\ Le(AsInt(x, "u64"), AsInt(max, "u64"))
        THEN Some(AsInt(x, Dst))
        ELSE None

\* impl_cast_uint_to_int!(Src, Dst)
impl_cast_uint_to_int(Src, Dst, x) ==
    LET max == max_value(Dst)
    IN  IF Le(AsInt(x, "u64"), AsInt(max, "u64"))
        THEN Some(AsInt(x, Dst))
        ELSE None

\* Mutant of impl_cast_uint_to_uint: x < max_value in place of
\* x <= max_value
impl_cast_uint_to_uint_strict(Src, Dst, x) ==
    IF size_of(Src) <= size_of(Dst)
    THEN Some(AsInt(x, Dst))
    ELSE LET zero == ZeroInt
             max  == max_value(Dst)
         IN  IF Le(zero, x) /\ Lt(AsInt(x, "u64"), AsInt(max, "u64"))
             THEN Some(AsInt(x, Dst))
             ELSE None

\* impl_cast_uint_to_uint!(Src, Dst)
impl_cast_uint_to_uint(Src, Dst, x) ==
    IF size_of(Src) <= size_of(Dst)
    THEN Some(AsInt(x, Dst))
    ELSE LET zero == ZeroInt
             max  == max_value(Dst)
         IN  IF Le(zero, x) /\ Le(AsInt(x, "u64"), AsInt(max, "u64"))
             THEN Some(AsInt(x, Dst))
             ELSE None

-----------------------------------------------------------------------------
(* The float cast macros *)

\* Mutant of impl_cast_int_to_float: the value goes through i32 on its way
impl_cast_int_to_float_via_i32(Src, Dst, x) ==
    Some(IntAsFloat(AsInt(x, "i32"), Dst))

\* impl_cast_int_to_float!(Src, Dst)
impl_cast_int_to_float(Src, Dst, x) == Some(IntAsFloat(x, Dst))

\* impl_cast_float_to_int!(Src, Dst): the set of Options the call can
\* return (more than one only where `x as Dst` is out of range)
impl_cast_float_to_int(Src, Dst, x) ==
    LET min == min_value(Dst)
        max == max_value(Dst)
    IN  IF FLe(IntAsFloat(min, Src), x) /\ FLe(x, IntAsFloat(max, Src))
        THEN { Some(y) : y \in FloatAsInt(x, Dst) }
        ELSE { None }

\* impl_cast_float_to_uint!(Src, Dst): the set of Options the call can
\* return
impl_cast_float_to_uint(Src, Dst, x) ==
    LET zero == FZero(FALSE)
        max  == max_value(Dst)
    IN  IF FLe(zero, x) /\ FLe(x, IntAsFloat(max, Src))
        THEN { Some(y) : y \in FloatAsInt(x, Dst) }
        ELSE { None }

\* impl_cast_float_to_float!(Src, Dst); max_value is <$Src>::max_value()
impl_cast_float_to_float(Src, Dst, x) ==
    IF size_of(Src) <= size_of(Dst)
    THEN Some(FloatAsFloat(x, Dst))
    ELSE LET n   == FloatAsFloat(x, "f64")
             max == FMaxValue(Src)
         IN  IF /\ FLe(FloatAsFloat(FNeg(max), "f64"), n)
                /\ FLe(n, FloatAsFloat(max, "f64"))
             THEN Some(FloatAsFloat(x, Dst))
             ELSE None

-----------------------------------------------------------------------------
(* The Signed predicates (src/src/signed.rs) *)

\* The types Signed is implemented for
SignedTypes == SignedKinds \cup FloatKinds

\* (1.0 / x) == inf, where inf is the infinity of sign n (n = TRUE: the
\* negative one).  The quotient 1.0 / x is that infinity when x is the zero
\* of that sign, and when x has that sign and 1 / |x| rounds to infinity:
\* 1 / |x| >= (2 - 2^-p) * 2^EMax, which among the values of the kind
\* (p significand bits, subnormals spaced 2^(EMin - p + 1) apart) are
\* exactly those with |x| <= 2^(-EMax - 1).
RecipIsInf(T, x, n) ==
    \/ x.cls = "zero" /\ x.neg = n
    \/ /\ x.cls = "fin" /\ x.neg = n
       /\ \/ x.exp < -EMax(T) - 1
          \/ x.exp = -EMax(T) - 1 /\ x.mant = OneMant

\* Mutant of the impl_signed_int is_positive: >= in place of >
is_positive_int_or_zero(x) == Le(ZeroInt, x)

\* impl_signed_int: is_positive is *self > 0, is_negative is *self < 0
is_positive_int(x) == Lt(ZeroInt, x)
is_negative_int(x) == Lt(x, ZeroInt)

\* impl_signed_float: is_positive is *self > 0.0 || (1.0 / *self) == $inf,
\* is_negative is *self < 0.0 || (1.0 / *self) == $neg_inf
is_positive_float(T, x) == FLt(FZero(FALSE), x) \/ RecipIsInf(T, x, FALSE)

\* Mutant of the impl_signed_float is_negative: the naive *self < 0.0
is_negative_float_naive(T, x) == FLt(x, FZero(FALSE))

is_negative_float(T, x) == FLt(x, FZero(FALSE)) \/ RecipIsInf(T, x, TRUE)

\* <T as Signed>::is_positive, is_negative
is_positive(T, x) ==
    IF T \in SignedKinds THEN is_positive_int(x) ELSE is_positive_float(T, x)
is_negative(T, x) ==
    IF T \in SignedKinds THEN is_negative_int(x) ELSE is_negative_float(T, x)

-----------------------------------------------------------------------------
(* The instantiations: which macro implements Cast<Src> for Dst *)

\* Mutant of Impl: the line impl_cast_float_to_float!(f64, f32) is missing,
\* so that no macro implements Cast<f64> for f32
Impl_without_f64_f32(Src, Dst) ==
    CASE Src = Dst                                       -> "same_type"
      [] Src \in SignedKinds /\ Dst \in SignedKinds
                             /\ Src # Dst                -> "int_to_int"
      [] Src \in SignedKinds /\ Dst \in UnsignedKinds    -> "int_to_uint"
      [] Src \in IntKinds /\ Dst \in FloatKinds          -> "int_to_float"
      [] Src \in UnsignedKinds /\ Dst = "i8"             -> "uint_to_uint"
      [] Src \in UnsignedKinds /\ Dst \in SignedKinds
                               /\ Dst # "i8"             -> "uint_to_int"
      [] Src \in UnsignedKinds /\ Dst \in UnsignedKinds
                               /\ Src # Dst              -> "uint_to_uint"
      [] Src \in FloatKinds /\ Dst \in SignedKinds       -> "float_to_int"
      [] Src \in FloatKinds /\ Dst \in UnsignedKinds     -> "float_to_uint"
      [] Src = "f32" /\ Dst = "f64"                      -> "float_to_float"
      [] Src = "f64" /\ Dst = "f32"                      -> "missing"

\* Mutant of Impl: the casts between signed kinds are instantiated from
\* impl_cast_uint_to_int, whose check has no zero <= x guard
Impl_signed_by_uint_to_int(Src, Dst) ==
    CASE Src = Dst                                       -> "same_type"
      [] Src \in SignedKinds /\ Dst \in SignedKinds
                             /\ Src # Dst                -> "uint_to_int"
      [] Src \in SignedKinds /\ Dst \in UnsignedKinds    -> "int_to_uint"
      [] Src \in IntKinds /\ Dst \in FloatKinds          -> "int_to_float"
      [] Src \in UnsignedKinds /\ Dst = "i8"             -> "uint_to_uint"
      [] Src \in UnsignedKinds /\ Dst \in SignedKinds
                               /\ Dst # "i8"             -> "uint_to_int"
      [] Src \in UnsignedKinds /\ Dst \in UnsignedKinds
                               /\ Src # Dst              -> "uint_to_uint"
      [] Src \in FloatKinds /\ Dst \in SignedKinds       -> "float_to_int"
      [] Src \in FloatKinds /\ Dst \in UnsignedKinds     -> "float_to_uint"
      [] Src \in FloatKinds /\ Dst \in FloatKinds
                            /\ Src # Dst                 -> "float_to_float"

Impl(Src, Dst) ==
    CASE Src = Dst                                       -> "same_type"
      [] Src \in SignedKinds /\ Dst \in SignedKinds
                             /\ Src # Dst                -> "int_to_int"
      [] Src \in SignedKinds /\ Dst \in UnsignedKinds    -> "int_to_uint"
      [] Src \in IntKinds /\ Dst \in FloatKinds          -> "int_to_float"
      [] Src \in UnsignedKinds /\ Dst = "i8"             -> "uint_to_uint"
      [] Src \in UnsignedKinds /\ Dst \in SignedKinds
                               /\ Dst # "i8"             -> "uint_to_int"
      [] Src \in UnsignedKinds /\ Dst \in UnsignedKinds
                               /\ Src # Dst              -> "uint_to_uint"
      [] Src \in FloatKinds /\ Dst \in SignedKinds       -> "float_to_int"
      [] Src \in FloatKinds /\ Dst \in UnsignedKinds     -> "float_to_uint"
      [] Src \in FloatKinds /\ Dst \in FloatKinds
                            /\ Src # Dst                 -> "float_to_float"

\* <Dst as Cast<Src>>::cast_from(x): the set of Options the call can return
cast_from(Src, Dst, x) ==
    LET m == Impl(Src, Dst) IN
    CASE m = "same_type"      -> { impl_cast_same_type(Dst, x) }
      [] m = "int_to_int"     -> { impl_cast_int_to_int(Src, Dst, x) }
      [] m = "int_to_uint"    -> { impl_cast_int_to_uint(Src, Dst, x) }
      [] m = "int_to_float"   -> { impl_cast_int_to_float(Src, Dst, x) }
      [] m = "uint_to_int"    -> { impl_cast_uint_to_int(Src, Dst, x) }
      [] m = "uint_to_uint"   -> { impl_cast_uint_to_uint(Src, Dst, x) }
      [] m = "float_to_int"   -> impl_cast_float_to_int(Src, Dst, x)
      [] m = "float_to_uint"  -> impl_cast_float_to_uint(Src, Dst, x)
      [] m = "float_to_float" -> { impl_cast_float_to_float(Src, Dst, x) }

-----------------------------------------------------------------------------
(* Inputs *)

\* Boundary values of the integer kinds, the examples 100, 200 of the
\* documentation and 32 of test_cast, and 2^24 and 2^53, up to which f32
\* and f64 hold every integer; the inputs of a kind are its values within
\* Delta of one.
IntAnchors ==
    { ZeroInt, <<0, 0, 0, 100>>, <<0, 0, 0, 200>>, <<0, 0, 0, 32>>,
      <<0, 0, 256, 0>>, <<32, 0, 0, 0>> }
    \cup { max_value(k) : k \in IntKinds }
    \cup { min_value(k) : k \in IntKinds }

IntInputs(k) ==
    { z \in { AddSmall(a, d) : a \in IntAnchors, d \in -Delta .. Delta } :
        InRange(z, k) }

\* Float inputs: the non-finite values, the zeros, and the finite values
\* with one of the exponents and one of the significands below that the
\* kind can hold.  The exponents are those of the subnormal and normal
\* limits of f32 and f64, of the bounds of the integer kinds, of the
\* precision limits 2^24 and 2^53, of the examples 1.0, 32.0, 1.0e123, and
\* of the largest values whose reciprocal is infinite (2^-128, 2^-1024).
FloatExps ==
    { -1074, -1023, -1022, -150, -149, -127, -126, -1, 0, 5, 6, 7, 8, 14, 15, 16,
      23, 24, 30, 31, 32, 52, 53, 62, 63, 64, 126, 127, 128, 408, 1022, 1023,
      -128, -1024 }

\* Significands 1, 1 + 2^-52, 1 + 2^-24, 1 + 2^-23, 1.5, 2 - 2^-8,
\* 2 - 2^-23, 2 - 2^-24, 2 - 2^-52
FloatMants ==
    { <<32768, 0, 0, 0>>, <<32768, 0, 0, 2048>>, <<32768, 128, 0, 0>>,
      <<32768, 256, 0, 0>>, <<49152, 0, 0, 0>>, <<65408, 0, 0, 0>>,
      <<65535, 65280, 0, 0>>, <<65535, 65408, 0, 0>>,
      <<65535, 65535, 65535, 63488>> }

FloatInputs(fk) ==
    { NaN, Inf(FALSE), Inf(TRUE), FZero(FALSE), FZero(TRUE) }
    \cup { f \in { Fin(n, e, m) : n \in BOOLEAN, e \in FloatExps, m \in FloatMants } :
             IsFloatOf(f, fk) }

Inputs(k) == IF k \in IntKinds THEN IntInputs(k) ELSE FloatInputs(k)

-----------------------------------------------------------------------------
(* The state machine: a value flows through a pipeline of at most two casts *)

Init ==
    /\ ptrBytes \in {4, 8}
    /\ srcKind \in Kinds
    /\ src \in Inputs(srcKind)
    /\ stage = 0
    /\ dst1 = "none" /\ res1 = None
    /\ dst2 = "none" /\ res2 = None
    /\ call = "none" /\ ret = FALSE

\* The value the next cast applies to, and its kind
CurKind == IF stage = 0 THEN srcKind ELSE dst1
CurVal  == IF stage = 0 THEN src ELSE res1[1]

\* A cast can be applied to the start value, or to the result of a first
\* cast that succeeded
CanCast == stage = 0 \/ (stage = 1 /\ res1 # None)

Deliver(d, r) ==
    /\ stage' = stage + 1
    /\ IF stage = 0
       THEN dst1' = d /\ res1' = r /\ UNCHANGED <<dst2, res2>>
       ELSE dst2' = d /\ res2' = r /\ UNCHANGED <<dst1, res1>>
    /\ UNCHANGED <<ptrBytes, srcKind, src, call, ret>>

CastSameType ==
    /\ CanCast
    /\ \E d \in Kinds :
        /\ Impl(CurKind, d) = "same_type"
        /\ Deliver(d, impl_cast_same_type(d, CurVal))

CastIntToInt ==
    /\ CanCast
    /\ \E d \in Kinds :
        /\ Impl(CurKind, d) = "int_to_int"
        /\ Deliver(d, impl_cast_int_to_int(CurKind, d, CurVal))

CastIntToUint ==
    /\ CanCast
    /\ \E d \in Kinds :
        /\ Impl(CurKind, d) = "int_to_uint"
        /\ Deliver(d, impl_cast_int_to_uint(CurKind, d, CurVal))

CastUintToInt ==
    /\ CanCast
    /\ \E d \in Kinds :
        /\ Impl(CurKind, d) = "uint_to_int"
        /\ Deliver(d, impl_cast_uint_to_int(CurKind, d, CurVal))

CastUintToUint ==
    /\ CanCast
    /\ \E d \in Kinds :
        /\ Impl(CurKind, d) = "uint_to_uint"
        /\ Deliver(d, impl_cast_uint_to_uint(CurKind, d, CurVal))

CastIntToFloat ==
    /\ CanCast
    /\ \E d \in Kinds :
        /\ Impl(CurKind, d) = "int_to_float"
        /\ Deliver(d, impl_cast_int_to_float(CurKind, d, CurVal))

CastFloatToInt ==
    /\ CanCast
    /\ \E d \in Kinds :
        /\ Impl(CurKind, d) = "float_to_int"
        /\ \E r \in impl_cast_float_to_int(CurKind, d, CurVal) : Deliver(d, r)

CastFloatToUint ==
    /\ CanCast
    /\ \E d \in Kinds :
        /\ Impl(CurKind, d) = "float_to_uint"
        /\ \E r \in impl_cast_float_to_uint(CurKind, d, CurVal) : Deliver(d, r)

CastFloatToFloat ==
    /\ CanCast
    /\ \E d \in Kinds :
        /\ Impl(CurKind, d) = "float_to_float"
        /\ Deliver(d, impl_cast_float_to_float(CurKind, d, CurVal))

Next ==
    \/ CastSameType
    \/ CastIntToInt
    \/ CastIntToUint
    \/ CastIntToFloat
    \/ CastUintToInt
    \/ CastUintToUint
    \/ CastFloatToInt
    \/ CastFloatToUint
    \/ CastFloatToFloat

Spec == Init /\ [][Next]_vars

-----------------------------------------------------------------------------
(* The Signed predicates called on a value *)

IsPositive ==
    /\ stage = 0 /\ call = "none"
    /\ srcKind \in SignedTypes
    /\ call' = "is_positive"
    /\ ret' = is_positive(srcKind, src)
    /\ UNCHANGED <<ptrBytes, srcKind, src, stage, dst1, res1, dst2, res2>>

IsNegative ==
    /\ stage = 0 /\ call = "none"
    /\ srcKind \in SignedTypes
    /\ call' = "is_negative"
    /\ ret' = is_negative(srcKind, src)
    /\ UNCHANGED <<ptrBytes, srcKind, src, stage, dst1, res1, dst2, res2>>

NextSigned == IsPositive \/ IsNegative

SpecSigned == Init /\ [][NextSigned]_vars

-----------------------------------------------------------------------------
(* The casts a state records: cast i (1 <= i <= stage) took ArgOf(i), a    *)
(* value of kind FromOf(i), to kind ToOf(i) and returned ResOf(i).         *)

FromOf(i) == IF i = 1 THEN srcKind ELSE dst1
ArgOf(i)  == IF i = 1 THEN src ELSE res1[1]
ToOf(i)   == IF i = 1 THEN dst1 ELSE dst2
ResOf(i)  == IF i = 1 THEN res1 ELSE res2

Done == 1 .. stage

\* Does the range of integer kind k2 contain the range of integer kind k1?
RangeContains(k2, k1) ==
    Le(min_value(k2), min_value(k1)) /\ Le(max_value(k1), max_value(k2))

-----------------------------------------------------------------------------
(* Exact comparison of a float with an integer bound (for the claims)      *)

\* Has the finite float f no fractional part?
IsIntegral(f) ==
    \/ f.cls = "zero"
    \/ f.cls = "fin" /\ f.exp >= 63
    \/ f.cls = "fin" /\ f.exp >= 0 /\ f.exp < 63
                     /\ BelowBits(f.mant, f.exp + 1) = NoMant

\* m <= f and f <= m as real numbers, for a finite or zero float f and an
\* exact integer m
IntLeFloat(m, f) ==
    IF FSign(f) >= 0 THEN Le(m, ZeroInt) \/ (~TooBig(f) => Le(m, Trunc(f)))
    ELSE /\ ~TooBig(f)
         /\ \/ Lt(m, Trunc(f))
            \/ m = Trunc(f) /\ IsIntegral(f)

FloatLeInt(f, m) ==
    IF FSign(f) <= 0 THEN Le(ZeroInt, m) \/ (~TooBig(f) => Le(Trunc(f), m))
    ELSE /\ ~TooBig(f)
         /\ \/ Lt(Trunc(f), m)
            \/ Trunc(f) = m /\ IsIntegral(f)

\* Is the float f, as a real number, within the range of integer kind k?
FloatInRange(f, k) ==
    /\ f.cls \in {"zero", "fin"}
    /\ IntLeFloat(min_value(k), f)
    /\ FloatLeInt(f, max_value(k))

\* |f| > <f32>::MAX
ExceedsF32(f) ==
    \/ f.cls = "inf"
    \/ f.cls = "fin" /\ FLt(FMaxValue("f32"), [f EXCEPT !.neg = FALSE])

-----------------------------------------------------------------------------
(* Claims *)

\* C1: every cast of an unsigned integer v to a signed kind D returns Some
\* iff v <= D.max and None otherwise; the Some holds v itself (100u8 gives
\* Some(100i8), 200u8 gives None).
C1_UintToIntIffFits ==
    \A i \in Done :
        (FromOf(i) \in UnsignedKinds /\ ToOf(i) \in SignedKinds) =>
            ResOf(i) = IF Le(ArgOf(i), max_value(ToOf(i)))
                       THEN Some(ArgOf(i)) ELSE None

\* C2: every integer-to-integer cast that returns Some(y) has y numerically
\* equal to the source value.
C2_IntCastPreservesValue ==
    \A i \in Done :
        (FromOf(i) \in IntKinds /\ ToOf(i) \in IntKinds /\ ResOf(i) # None) =>
            ResOf(i)[1] = ArgOf(i)

\* C3: every cast of a signed integer v to a signed kind D returns Some(v)
\* iff D.min <= v <= D.max and None otherwise; when D is at least as wide as
\* the source kind it returns Some(v) for every v.
C3_IntToIntIffInRange ==
    \A i \in Done :
        (FromOf(i) \in SignedKinds /\ ToOf(i) \in SignedKinds) =>
            /\ ResOf(i) = IF InRange(ArgOf(i), ToOf(i))
                          THEN Some(ArgOf(i)) ELSE None
            /\ size_of(FromOf(i)) <= size_of(ToOf(i)) => ResOf(i) = Some(ArgOf(i))

\* Witness of C3: a negative value below the minimum of a narrower signed
\* kind was refused, and a negative value was widened.
C3_Witness ==
    /\ stage = 2
    /\ srcKind = "i16" /\ dst1 = "i64" /\ dst2 = "i8"
    /\ Lt(src, min_value("i8"))
    /\ res1 = Some(src) /\ res2 = None

\* C4: every cast of a signed integer v to an unsigned kind D of any width
\* returns Some(v) iff 0 <= v <= D.max and None otherwise; a negative v is
\* refused by every unsigned kind.
C4_IntToUintIffInRange ==
    \A i \in Done :
        (FromOf(i) \in SignedKinds /\ ToOf(i) \in UnsignedKinds) =>
            /\ ResOf(i) = IF Le(ZeroInt, ArgOf(i)) /\ Le(ArgOf(i), max_value(ToOf(i)))
                          THEN Some(ArgOf(i)) ELSE None
            /\ Lt(ArgOf(i), ZeroInt) => ResOf(i) = None

\* Witness of C4: a negative i8 was refused by the wider u64.
C4_Witness ==
    /\ stage >= 1
    /\ srcKind = "i8" /\ dst1 = "u64"
    /\ Lt(src, ZeroInt) /\ res1 = None

\* C5: every cast of an unsigned integer v to an unsigned kind D returns
\* Some(v) when D is as wide as the source kind or wider, and when D is
\* narrower returns Some(v) iff v <= D.max and None otherwise.
C5_UintToUint ==
    \A i \in Done :
        (FromOf(i) \in UnsignedKinds /\ ToOf(i) \in UnsignedKinds) =>
            IF size_of(FromOf(i)) <= size_of(ToOf(i))
            THEN ResOf(i) = Some(ArgOf(i))
            ELSE ResOf(i) = IF Le(ArgOf(i), max_value(ToOf(i)))
                            THEN Some(ArgOf(i)) ELSE None

\* Witness of C5: a u16 was widened to u32, and the result, above the
\* maximum of u8, was refused by u8.
C5_Witness ==
    /\ stage = 2
    /\ srcKind = "u16" /\ dst1 = "u32" /\ dst2 = "u8"
    /\ Lt(max_value("u8"), src)
    /\ res1 = Some(src) /\ res2 = None

\* C6: for integer kinds K1, K2 where the range of K2 contains the range of
\* K1, the cast of a K1 value v to K2 succeeds, and casting the result back
\* to K1 returns Some(v).
C6_RoundTrip ==
    /\ \A i \in Done :
          (FromOf(i) \in IntKinds /\ ToOf(i) \in IntKinds
                                  /\ RangeContains(ToOf(i), FromOf(i))) =>
              ResOf(i) # None
    /\ (stage = 2 /\ srcKind \in IntKinds /\ dst1 \in IntKinds
                  /\ RangeContains(dst1, srcKind) /\ dst2 = srcKind) =>
          res2 = Some(src)

\* Witness of C6: the maximum of i8 went to i16 and back.
C6_Witness ==
    /\ stage = 2
    /\ srcKind = "i8" /\ dst1 = "i16" /\ dst2 = "i8"
    /\ src = max_value("i8")
    /\ res2 = Some(src)

\* C7: for each of the twelve kinds K and every value v of K, the cast of v
\* to K returns Some(v).
C7_Identity ==
    \A i \in Done : FromOf(i) = ToOf(i) => ResOf(i) = Some(ArgOf(i))

\* Witness of C7: an f64 NaN was cast to f64 and came back as Some(NaN).
C7_Witness ==
    /\ stage >= 1
    /\ srcKind = "f64" /\ dst1 = "f64"
    /\ src = NaN /\ res1 = Some(NaN)

\* C8: the cast of an f64 value v to f32 returns None iff |v| exceeds the
\* largest finite f32, and returns Some iff -f32::MAX <= v <= f32::MAX, so
\* that a finite v never comes back as an infinity.  (Stated for every v
\* other than NaN, which C10 is about.)
C8_NarrowingFailsIffTooLarge ==
    \A i \in Done :
        (FromOf(i) = "f64" /\ ToOf(i) = "f32" /\ ArgOf(i).cls # "nan") =>
            /\ ResOf(i) = None <=> ExceedsF32(ArgOf(i))
            /\ (ResOf(i) # None /\ ArgOf(i).cls # "inf") => ResOf(i)[1].cls # "inf"

\* C9: the cast of a float v to an integer kind D returns Some iff
\* D.min <= v <= D.max, and None for NaN, for the infinities and for every
\* finite v outside that range.
C9_FloatToIntIffInRange ==
    \A i \in Done :
        (FromOf(i) \in FloatKinds /\ ToOf(i) \in IntKinds) =>
            (ResOf(i) # None <=> FloatInRange(ArgOf(i), ToOf(i)))

\* C10: the cast of the f64 NaN to f32 returns Some(NaN).
C10_NarrowingPassesNaN ==
    \A i \in Done :
        (FromOf(i) = "f64" /\ ToOf(i) = "f32" /\ ArgOf(i) = NaN) =>
            ResOf(i) = Some(NaN)

\* Is v a value of kind k?
IsValueOf(v, k) == IF k \in IntKinds THEN InRange(v, k) ELSE IsFloatOf(v, k)

\* The macros of lib.rs that implement Cast
Macros ==
    { "same_type", "int_to_int", "int_to_uint", "int_to_float", "uint_to_int",
      "uint_to_uint", "float_to_int", "float_to_uint", "float_to_float" }

\* Is r None, or Some(y) with y a value of kind k?
IsOptionOf(r, k) == r = None \/ (Len(r) = 1 /\ IsValueOf(r[1], k))

\* C11: every cast is total and fault-free: for each of the 144 pairs of
\* kinds a macro implements the cast, for every source value the call
\* returns, and what it returns is None or Some(y) with y a value of the
\* target kind.
C11_TotalAndFaultFree ==
    /\ CanCast =>
         /\ ENABLED Next
         /\ \A d \in Kinds :
              /\ Impl(CurKind, d) \in Macros
              /\ cast_from(CurKind, d, CurVal) # {}
              /\ \A r \in cast_from(CurKind, d, CurVal) : IsOptionOf(r, d)
    /\ \A i \in Done : IsOptionOf(ResOf(i), ToOf(i))

\* Witness of C11: casts of a NaN, of an infinity and of the minimum of i64
\* have returned.
C11_Witness ==
    /\ stage = 2
    /\ \/ srcKind = "f64" /\ src = NaN /\ dst1 = "f64" /\ dst2 = "i64"
       \/ srcKind = "f32" /\ src = Inf(TRUE) /\ dst1 = "f64" /\ dst2 = "u8"
       \/ srcKind = "i64" /\ src = min_value("i64") /\ dst1 = "isize" /\ dst2 = "f32"
    /\ res2 = None \/ Len(res2) = 1

\* Does float kind fk hold the exact integer z?
ExactIn(z, fk) ==
    \/ z = ZeroInt
    \/ BelowBits(Normalize(IF z[1] < 0 THEN NegInt(z) ELSE z).mant,
                 MantissaDigits(fk)) = NoMant

\* Is the float f, as a real number, the exact integer z?
FloatEqInt(f, z) ==
    /\ f.cls \in {"zero", "fin"}
    /\ ~TooBig(f)
    /\ IsIntegral(f)
    /\ Trunc(f) = z

\* C12: every cast of an integer v to a float kind D returns Some, never
\* None, and when D holds v exactly the result equals v (32i32 gives
\* Some(32.0f32)).
C12_IntToFloatAlwaysSome ==
    \A i \in Done :
        (FromOf(i) \in IntKinds /\ ToOf(i) \in FloatKinds) =>
            /\ ResOf(i) # None
            /\ IsFloatOf(ResOf(i)[1], ToOf(i))
            /\ ExactIn(ArgOf(i), ToOf(i)) => FloatEqInt(ResOf(i)[1], ArgOf(i))

\* Witness of C12: 32i32 was cast to f32 and gave Some(32.0), and 2^24 + 1,
\* which f32 does not hold, was cast to f32 and gave Some.
C12_Witness ==
    /\ stage >= 1
    /\ dst1 = "f32"
    /\ \/ srcKind = "i32" /\ src = <<0, 0, 0, 32>>
                          /\ res1 = Some(Fin(FALSE, 5, OneMant))
       \/ srcKind = "u32" /\ src = <<0, 0, 256, 1>> /\ ~ExactIn(src, "f32")
                          /\ res1 # None

CheckIsExact(Src, Dst, x) ==
    LET m    == Impl(Src, Dst)
        wide == size_of(Src) > size_of(Dst)
        min  == min_value(Dst)
        max  == max_value(Dst)
    IN  /\ (m = "int_to_int" /\ wide) =>
             /\ AsInt(x, "i64") = x
             /\ AsInt(min, "i64") = min
             /\ AsInt(max, "i64") = max
        /\ (m = "int_to_uint" \/ (m = "uint_to_uint" /\ wide)) =>
             /\ AsInt(max, "u64") = max
             /\ Le(ZeroInt, x) => AsInt(x, "u64") = x
        /\ m = "uint_to_int" =>
             /\ AsInt(max, "u64") = max
             /\ AsInt(x, "u64") = x

\* C15: in every instantiation of the four integer macros, whenever the
\* i64/u64 comparison decides the outcome, `x as i64` / `x as u64` and
\* `min_value as i64` / `max_value as u64` are numerically equal to x and to
\* the bounds of the target; a negative x is never read as u64 in a
\* comparison that decides, because `zero <= x` fails first.
C15_BoundCheckIsExact ==
    \A i \in Done :
        (FromOf(i) \in IntKinds /\ ToOf(i) \in IntKinds) =>
            CheckIsExact(FromOf(i), ToOf(i), ArgOf(i))

\* Witness of C15: -1i64 was cast to u32 and refused by the zero <= x guard,
\* where `x as u64` would have been 2^64 - 1.
C15_Witness ==
    /\ stage >= 1
    /\ srcKind = "i64" /\ src = <<-1, 65535, 65535, 65535>>
    /\ AsInt(src, "u64") # src
    /\ dst1 = "u32" /\ res1 = None

\* C16: integer cast chains are path-independent: for integer kinds A, B, C
\* and a value v of A, if B::cast_from(v) is Some(w) and C::cast_from(w) is
\* Some(z), then C::cast_from(v) is Some(z).
C16_PathIndependent ==
    (/\ stage = 2
     /\ srcKind \in IntKinds /\ dst1 \in IntKinds /\ dst2 \in IntKinds
     /\ res1 # None /\ res2 # None) =>
        cast_from(srcKind, dst2, src) = {res2}

\* C17: when the cast of a float v to an integer kind D returns Some(y),
\* the integer part of v is representable in D and y is that integer part
\* (v truncated toward zero); a float equal to the rounded upper bound
\* `max_value as $Src` is not accepted when it exceeds D.max.
C17_FloatToIntTruncates ==
    \A i \in Done :
        (FromOf(i) \in FloatKinds /\ ToOf(i) \in IntKinds /\ ResOf(i) # None) =>
            /\ TruncFits(ArgOf(i), ToOf(i))
            /\ ResOf(i)[1] = Trunc(ArgOf(i))

\* The fixed-width kind a pointer-width kind stands for on the target:
\* i32 / u32 when pointers take 4 bytes, i64 / u64 when they take 8
FixedWidth(k) ==
    CASE k = "isize" -> IF ptrBytes = 4 THEN "i32" ELSE "i64"
      [] k = "usize" -> IF ptrBytes = 4 THEN "u32" ELSE "u64"
      [] OTHER       -> k

\* C18: on a target of either pointer width, a cast to or from isize
\* (usize) succeeds or fails, and returns the same number, as the cast with
\* isize replaced by i32 or i64 (usize by u32 or u64) does; and where the
\* size_of comparison of impl_cast_int_to_int or impl_cast_uint_to_uint
\* accepts the value unchecked, the target represents it.
C18_PointerWidthKinds ==
    \A i \in Done :
        ({FromOf(i), ToOf(i)} \cap {"isize", "usize"} # {}) =>
            /\ ResOf(i) \in cast_from(FixedWidth(FromOf(i)),
                                      FixedWidth(ToOf(i)), ArgOf(i))
            /\ cast_from(FromOf(i), ToOf(i), ArgOf(i))
                 = cast_from(FixedWidth(FromOf(i)),
                             FixedWidth(ToOf(i)), ArgOf(i))
            /\ (/\ Impl(FromOf(i), ToOf(i)) \in {"int_to_int", "uint_to_uint"}
                /\ size_of(FromOf(i)) <= size_of(ToOf(i))) =>
                    /\ InRange(ArgOf(i), ToOf(i))
                    /\ ResOf(i) = Some(ArgOf(i))

\* Witness of C18: with 4-byte pointers 2^31 as an i64 was refused by the
\* cast to isize, and as a usize accepted unchecked by the cast to u64.
C18_Witness ==
    /\ stage >= 1 /\ ptrBytes = 4
    /\ src = <<0, 0, 32768, 0>>
    /\ \/ srcKind = "i64" /\ dst1 = "isize" /\ res1 = None
       \/ srcKind = "usize" /\ dst1 = "u64" /\ res1 = Some(src)

=============================================================================
